---- MODULE Spec2Model ----
(***************************************************************************)
(* A model of the lexical cursor of src/src/parser.rs (struct Parser).     *)
(* The cursor wraps an iterator of byte-or-error results (source), keeps a *)
(* VecDeque<char> of decoded but unconsumed characters (peeked) and a      *)
(* reusable String (peeked_container).  Every public method of Parser is   *)
(* an operator on a cursor record, written as the method is written, and   *)
(* one action of the state machine calls it with arguments drawn from a    *)
(* small set.                                                               *)
(*                                                                         *)
(* Characters are their code points (u8 -> char maps byte b to U+00b), a   *)
(* String is the sequence of its characters and as_bytes() is its UTF-8    *)
(* encoding.  The VecDeque is a sequence whose index 1 is the front and    *)
(* whose last index is the back.                                           *)
(***************************************************************************)
EXTENDS Integers, Sequences, FiniteSets, TLC

\* ------------------------------------------------------------------ bounds
\* longest enumerated source
MaxLen == 2
\* largest argument of peek_n and skip
MaxPeek == 3
\* longest enumerated source with a failing read
MaxErrLen == 3
\* most pieces a day_03 input is put together from
MaxPieces == 3
\* longest enumerated input of Grid2D::from
MaxGrid == 5
\* longest enumerated input of day_11
MaxStones == 4
\* most rounds of the loop of Stones::from that count the same stone
MaxRounds == 3
\* longest enumerated input of day_01
MaxLines == 5
\* most columns and most rows of an enumerated map of day_06
MaxSide == 3
\* most blocks of an enumerated map of day_06
MaxBlocks == 2
\* the items collect() may take from Steps beyond the bound of size_hint
MaxExtra == 2

\* ------------------------------------------------------- program constants
I32Max == 2147483647
I32Min == (-I32Max) - 1

\* characters used in the enumerated sources
SP == 32
NL == 10
MINUS == 45
ZERO == 48
ONE == 49
CH_a == 97
CH_b == 98
\* an item of the source that is a failed read (Err(_))
ERR == -1

Alphabet == {SP, MINUS, ONE, CH_a}

\* char::is_ascii_digit
is_ascii_digit(c) == c >= 48 /\ c <= 57
Digits == {c \in 0..255 : is_ascii_digit(c)}
\* the closure |c| c.is_ascii_digit() || c == '-' of integer()
DigitsOrMinus == Digits \cup {MINUS}

\* ----------------------------------------------------------------- helpers
Min(a, b) == IF a <= b THEN a ELSE b
Reverse(s) == [i \in 1..Len(s) |-> s[Len(s) + 1 - i]]
Take(s, n) == SubSeq(s, 1, Min(n, Len(s)))
Drop(s, n) == SubSeq(s, Min(n, Len(s)) + 1, Len(s))
RECURSIVE SeqsUpTo(_, _)
SeqsUpTo(S, n) ==
    IF n = 0 THEN {<<>>}
    ELSE LET T == SeqsUpTo(S, n - 1)
         IN  T \cup {Append(t, x) : t \in {u \in T : Len(u) = n - 1}, x \in S}

\* Option / return values: a tag and the payload as a sequence
None == [tag |-> "None", v |-> <<>>]
Some(x) == [tag |-> "Some", v |-> <<x>>]
Unit == [tag |-> "Unit", v |-> <<>>]
Str(s) == [tag |-> "Str", v |-> s]
Panic == [tag |-> "Panic", v |-> <<>>]
is_some(r) == r.tag = "Some"

\* ------------------------------------------------------------------- state
VARIABLES
    input,            \* the whole source S the cursor was created on
    source,           \* Parser.source: the items the iterator has not yielded
    peeked,           \* Parser.peeked: VecDeque<char>, index 1 = front
    peeked_container, \* Parser.peeked_container: String
    consumed,         \* characters handed out by next / next_if / next_if_eq
    polls,            \* calls of source.next() made by the last operation
    panicked,         \* the last operation panicked (the thread unwound)
    op, arg, ret,     \* the last operation, its argument and what it returned
    acc, skip_mul,    \* day_03: the accumulator of try_fold; part_2's skip_mul
    cache,            \* day_11: the HashMap the loop of Stones::from fills
    grid,             \* grid.rs: the Grid2D (width, height, data)
    steps,            \* day_06: the Steps iterator (its seven fields)
    collected,        \* day_06: the HashSet collect() puts the positions in
    seen, todo,       \* day_06: part_2's seen; the positions its fold has left
    yields            \* day_06: the items Steps yielded since it was reset

\* the variables of the consumers of the cursor and of the grid programs
consumers == <<acc, skip_mul, cache, grid, steps, collected, seen, todo,
               yields>>
vars == <<input, source, peeked, peeked_container, consumed, polls, panicked,
          op, arg, ret, acc, skip_mul, cache, grid, steps, collected, seen,
          todo, yields>>

\* the cursor as a record the methods work on
Cur == [source |-> source, peeked |-> peeked,
        peeked_container |-> peeked_container,
        consumed |-> consumed, polls |-> 0, panicked |-> panicked]

\* ------------------------------------------------------------- primitives
\* u8 -> char (From<u8> for char): byte b is the character U+00b
byte_to_char(b) == b

\* String::as_bytes: the UTF-8 encoding of a sequence of characters < U+0100
RECURSIVE as_bytes(_)
as_bytes(s) ==
    IF s = <<>> THEN <<>>
    ELSE LET c == Head(s)
         IN  (IF c < 128 THEN <<c>> ELSE <<192 + (c \div 64), 128 + (c % 64)>>)
             \o as_bytes(Tail(s))

\* Parser::take_next: one call of source.next(); panics on Err
take_next(p) ==
    IF p.panicked THEN [p |-> p, r |-> None]
    ELSE IF p.source = <<>>
    THEN [p |-> [p EXCEPT !.polls = @ + 1], r |-> None]
    ELSE IF Head(p.source) = ERR
    THEN [p |-> [p EXCEPT !.polls = @ + 1, !.source = Tail(@),
                          !.panicked = TRUE], r |-> Panic]
    ELSE [p |-> [p EXCEPT !.polls = @ + 1, !.source = Tail(@)],
          r |-> Some(byte_to_char(Head(p.source)))]

\* a deque filled at the wrong end (push_back for push_front)
push_front_as_push_back(q, c) == Append(q, c)

\* VecDeque::push_front / pop_back / back
push_front(q, c) == <<c>> \o q
back(q) == q[Len(q)]
pop_back(q) == SubSeq(q, 1, Len(q) - 1)

\* peek() that reads a new character on every call, buffered or not
peek_always_reads(p) ==
    LET t == take_next(p)
    IN  IF is_some(t.r)
        THEN LET q == [t.p EXCEPT !.peeked = push_front(@, t.r.v[1])]
             IN  [p |-> q, r |-> Some(back(q.peeked))]
        ELSE IF p.peeked # <<>> /\ ~t.p.panicked
        THEN [p |-> t.p, r |-> Some(back(p.peeked))]
        ELSE t

\* peek() that looks at the wrong end of the deque (front for back)
peek_front(p) ==
    IF p.peeked # <<>> THEN [p |-> p, r |-> Some(Head(p.peeked))]
    ELSE LET t == take_next(p)
         IN  IF is_some(t.r)
             THEN [p |-> [t.p EXCEPT !.peeked = push_front(@, t.r.v[1])],
                   r |-> t.r]
             ELSE t

\* Parser::peek
peek(p) ==
    IF p.peeked # <<>> THEN [p |-> p, r |-> Some(back(p.peeked))]
    ELSE LET t == take_next(p)
         IN  IF is_some(t.r)
             THEN [p |-> [t.p EXCEPT !.peeked = push_front(@, t.r.v[1])],
                   r |-> t.r]
             ELSE t

\* next() that takes the buffered character from the front (pop_front)
next_pop_front(p) ==
    IF p.peeked # <<>>
    THEN [p |-> [p EXCEPT !.peeked = Tail(@),
                          !.consumed = Append(@, Head(p.peeked))],
          r |-> Some(Head(p.peeked))]
    ELSE LET t == take_next(p)
         IN  IF is_some(t.r)
             THEN [p |-> [t.p EXCEPT !.consumed = Append(@, t.r.v[1])],
                   r |-> t.r]
             ELSE t

\* Parser::next
next(p) ==
    IF p.peeked # <<>>
    THEN [p |-> [p EXCEPT !.peeked = pop_back(@),
                          !.consumed = Append(@, back(p.peeked))],
          r |-> Some(back(p.peeked))]
    ELSE LET t == take_next(p)
         IN  IF is_some(t.r)
             THEN [p |-> [t.p EXCEPT !.consumed = Append(@, t.r.v[1])],
                   r |-> t.r]
             ELSE t

\* next_if() written as self.next().filter(f): the character is consumed
\* before the closure is asked
next_if_pops_first(p, f) ==
    LET k == next(p)
    IN  IF is_some(k.r) /\ k.r.v[1] \in f THEN k
        ELSE [p |-> k.p, r |-> IF k.p.panicked THEN Panic ELSE None]

\* Parser::next_if; the closure f is the set of characters it accepts
next_if(p, f) ==
    LET k == peek(p)
    IN  IF is_some(k.r) /\ k.r.v[1] \in f
        THEN [p |-> [k.p EXCEPT !.peeked = pop_back(@),
                                !.consumed = Append(@, back(k.p.peeked))],
              r |-> Some(back(k.p.peeked))]
        ELSE [p |-> k.p, r |-> IF k.p.panicked THEN Panic ELSE None]

\* Parser::next_if_eq
next_if_eq(p, c) ==
    LET k == peek(p)
    IN  IF is_some(k.r) /\ k.r.v[1] = c
        THEN [p |-> [k.p EXCEPT !.peeked = pop_back(@),
                                !.consumed = Append(@, back(k.p.peeked))],
              r |-> Some(back(k.p.peeked))]
        ELSE [p |-> k.p, r |-> IF k.p.panicked THEN Panic ELSE None]

\* skip_if_eq() with an if for the while: at most one character skipped
skip_if_eq_once(p, c) ==
    LET t == next_if_eq(p, c)
    IN  [p |-> t.p, r |-> IF t.p.panicked THEN Panic ELSE Unit]

\* Parser::skip_if_eq: while self.next_if_eq(c).is_some() {}
RECURSIVE skip_if_eq(_, _)
skip_if_eq(p, c) ==
    LET t == next_if_eq(p, c)
    IN  IF is_some(t.r) THEN skip_if_eq(t.p, c)
        ELSE [p |-> t.p, r |-> IF t.p.panicked THEN Panic ELSE Unit]

\* Parser::skip_if: while self.next_if(&f).is_some() {}
RECURSIVE skip_if(_, _)
skip_if(p, f) ==
    LET t == next_if(p, f)
    IN  IF is_some(t.r) THEN skip_if(t.p, f)
        ELSE [p |-> t.p, r |-> IF t.p.panicked THEN Panic ELSE Unit]

\* Parser::skip: for _ in 0..n { self.next(); }
RECURSIVE skip(_, _)
skip(p, n) ==
    IF n = 0 THEN [p |-> p, r |-> Unit]
    ELSE LET t == next(p)
         IN  IF t.p.panicked THEN [p |-> t.p, r |-> Panic]
             ELSE skip(t.p, n - 1)

\* a peek_n loop that collects the characters aside and moves them to the
\* deque after the loop: a failed read loses what was read before it
RECURSIVE peek_n_fill_aside(_, _)
peek_n_fill_aside(p, k) ==
    IF k = 0 THEN p
    ELSE LET t == take_next(p)
         IN  IF t.p.panicked THEN [t.p EXCEPT !.peeked = p.peeked]
             ELSE IF is_some(t.r)
             THEN LET q == peek_n_fill_aside(t.p, k - 1)
                  IN  IF q.panicked THEN [q EXCEPT !.peeked = p.peeked]
                      ELSE [q EXCEPT !.peeked =
                               SubSeq(@, 1, Len(@) - Len(p.peeked))
                               \o <<t.r.v[1]>> \o p.peeked]
             ELSE t.p

\* the loop of peek_n: k calls of take_next, each pushed to the front,
\* leaving the loop at the first None
RECURSIVE peek_n_fill(_, _)
peek_n_fill(p, k) ==
    IF k = 0 THEN p
    ELSE LET t == take_next(p)
         IN  IF is_some(t.r)
             THEN peek_n_fill([t.p EXCEPT !.peeked = push_front(@, t.r.v[1])],
                              k - 1)
             ELSE t.p

\* peek_n() without self.peeked_container.clear()
peek_n_no_clear(p, n) ==
    LET q == IF n > Len(p.peeked) THEN peek_n_fill(p, n - Len(p.peeked))
             ELSE p
        s == q.peeked_container \o Take(Reverse(q.peeked), n)
    IN  IF q.panicked THEN [p |-> q, r |-> Panic]
        ELSE [p |-> [q EXCEPT !.peeked_container = s], r |-> Str(s)]

\* peek_n() that reads n more characters whatever is buffered already
peek_n_refill(p, n) ==
    LET q == peek_n_fill(p, n)
        s == Take(Reverse(q.peeked), n)
    IN  IF q.panicked THEN [p |-> q, r |-> Panic]
        ELSE [p |-> [q EXCEPT !.peeked_container = s], r |-> Str(s)]

\* peek_n() that copies the deque front to back (iter().take(n), no rev())
peek_n_no_rev(p, n) ==
    LET q == IF n > Len(p.peeked) THEN peek_n_fill(p, n - Len(p.peeked))
             ELSE p
        s == Take(q.peeked, n)
    IN  IF q.panicked THEN [p |-> q, r |-> Panic]
        ELSE [p |-> [q EXCEPT !.peeked_container = s], r |-> Str(s)]

\* Parser::peek_n
peek_n(p, n) ==
    LET q == IF n > Len(p.peeked) THEN peek_n_fill(p, n - Len(p.peeked))
             ELSE p
        s == Take(Reverse(q.peeked), n)
    IN  IF q.panicked THEN [p |-> q, r |-> Panic]
        ELSE [p |-> [q EXCEPT !.peeked_container = s], r |-> Str(s)]

\* <i32 as FromStr>::from_str on the digits ds, accumulating with
\* checked_mul and checked_add (checked_sub for a negative literal)
RECURSIVE parse_digits(_, _, _)
parse_digits(val, ds, neg) ==
    IF ds = <<>> THEN [ok |-> TRUE, v |-> val]
    ELSE LET d == Head(ds) - ZERO
         IN  IF ~is_ascii_digit(Head(ds)) THEN [ok |-> FALSE, v |-> 0]
             ELSE IF neg
             THEN IF val < -(I32Max \div 10) THEN [ok |-> FALSE, v |-> 0]
                  ELSE IF val * 10 < I32Min + d THEN [ok |-> FALSE, v |-> 0]
                  ELSE parse_digits(val * 10 - d, Tail(ds), neg)
             ELSE IF val > I32Max \div 10 THEN [ok |-> FALSE, v |-> 0]
                  ELSE IF val * 10 > I32Max - d THEN [ok |-> FALSE, v |-> 0]
                  ELSE parse_digits(val * 10 + d, Tail(ds), neg)

\* s.parse::<i32>(): Err on an empty string, on a lone sign, on a
\* character that is not a digit and on a value outside i32
parse(s) ==
    IF s = <<>> THEN [ok |-> FALSE, v |-> 0]
    ELSE IF Head(s) = MINUS
    THEN IF Tail(s) = <<>> THEN [ok |-> FALSE, v |-> 0]
         ELSE parse_digits(0, Tail(s), TRUE)
    ELSE parse_digits(0, s, FALSE)

\* What unwrap_unchecked() on an Err can do (undefined behaviour): the
\* build with debug assertions aborts on the failed precondition, the
\* optimised build returns whatever i32 it finds
UBValues == {I32Min, 0, I32Max}
UBOutcomes == {Panic} \cup {Some(x) : x \in UBValues}

\* the while-let loop of integer(): push every following digit to s
RECURSIVE integer_digits(_, _)
integer_digits(p, s) ==
    LET t == next_if(p, Digits)
    IN  IF is_some(t.r) THEN integer_digits(t.p, Append(s, t.r.v[1]))
        ELSE [p |-> t.p, s |-> s]

\* integer() that takes the first character with next() and tests it after
integer_takes_first(p, ub) ==
    LET f == next(p)
    IN  IF ~is_some(f.r) THEN f
        ELSE IF f.r.v[1] \notin DigitsOrMinus THEN [p |-> f.p, r |-> None]
        ELSE LET d == integer_digits(f.p, f.r.v)
                 n == parse(d.s)
             IN  IF d.p.panicked THEN [p |-> d.p, r |-> Panic]
                 ELSE IF n.ok THEN [p |-> d.p, r |-> Some(n.v)]
                 ELSE [p |-> [d.p EXCEPT !.panicked = (ub = Panic)], r |-> ub]

\* Parser::integer; ub is the outcome taken when the parse fails
integer(p, ub) ==
    LET f == next_if(p, DigitsOrMinus)
    IN  IF ~is_some(f.r) THEN f
        ELSE LET d == integer_digits(f.p, f.r.v)
                 n == parse(d.s)
             IN  IF d.p.panicked THEN [p |-> d.p, r |-> Panic]
                 ELSE IF n.ok THEN [p |-> d.p, r |-> Some(n.v)]
                 ELSE [p |-> [d.p EXCEPT !.panicked = (ub = Panic)], r |-> ub]

\* next_integer() that skips every ASCII whitespace, newlines included
next_integer_skips_newlines(p, ub) ==
    LET t == skip_if(p, {SP, NL, 9, 13})
    IN  IF t.p.panicked THEN t ELSE integer(t.p, ub)

\* Parser::next_integer
next_integer(p, ub) ==
    LET t == skip_if_eq(p, SP)
    IN  IF t.p.panicked THEN t ELSE integer(t.p, ub)

\* take_newline() that takes the whole run of newlines (skip_if_eq('\n'))
take_newline_takes_run(p) ==
    LET t == skip_if_eq(p, SP)
        n == next_if_eq(t.p, NL)
    IN  IF t.p.panicked THEN t
        ELSE IF is_some(n.r) THEN [p |-> skip_if_eq(n.p, NL).p, r |-> Some(0)]
        ELSE n

\* Parser::take_newline
take_newline(p) ==
    LET t == skip_if_eq(p, SP)
        n == next_if_eq(t.p, NL)
    IN  IF t.p.panicked THEN t
        ELSE IF is_some(n.r) THEN [p |-> n.p, r |-> Some(0)]
        ELSE n

\* eof() that asks next() for peek(): the character it finds is consumed
eof_consumes(p) ==
    LET t == skip_if_eq(p, SP)
        k == next(t.p)
    IN  IF t.p.panicked THEN t
        ELSE IF k.p.panicked THEN k
        ELSE IF is_some(k.r) THEN [p |-> k.p, r |-> None]
        ELSE [p |-> k.p, r |-> Some(0)]

\* Parser::eof
eof(p) ==
    LET t == skip_if_eq(p, SP)
        k == peek(t.p)
    IN  IF t.p.panicked THEN t
        ELSE IF k.p.panicked THEN k
        ELSE IF is_some(k.r) THEN [p |-> k.p, r |-> None]
        ELSE [p |-> k.p, r |-> Some(0)]

\* a try_fold that takes each character with next() to compare it
RECURSIVE try_fold_consuming(_, _, _)
try_fold_consuming(p, bs, i) ==
    IF i = Len(bs) THEN [p |-> p, r |-> Some(0)]
    ELSE LET w == next(p)
         IN  IF w.p.panicked THEN [p |-> w.p, r |-> Panic]
             ELSE IF is_some(w.r) /\ w.r.v[1] = bs[i + 1]
             THEN try_fold_consuming(w.p, bs, i + 1)
             ELSE [p |-> w.p, r |-> None]

\* the try_fold of take_matching over the bytes bs of one candidate, from
\* index i: Some(n) when every byte matched, None at the first mismatch
RECURSIVE try_fold(_, _, _)
try_fold(p, bs, i) ==
    IF i = Len(bs) THEN [p |-> p, r |-> Some(i)]
    ELSE LET w == peek_n(p, i + 1)
             got == as_bytes(w.r.v)
         IN  IF w.p.panicked THEN [p |-> w.p, r |-> Panic]
             ELSE IF i + 1 <= Len(got) /\ got[i + 1] = bs[i + 1]
             THEN try_fold(w.p, bs, i + 1)
             ELSE [p |-> w.p, r |-> None]

\* take_matching_and() without the self.skip(n) of a match
RECURSIVE take_matching_and_no_skip(_, _)
take_matching_and_no_skip(p, v) ==
    IF v = <<>> THEN [p |-> p, r |-> None]
    ELSE LET n == try_fold(p, Head(v)[1], 0)
         IN  IF n.p.panicked THEN n
             ELSE IF is_some(n.r) THEN [p |-> n.p, r |-> Some(Head(v)[2])]
             ELSE take_matching_and_no_skip(n.p, Tail(v))

\* Parser::take_matching_and: find_map over the pairs (literal, value)
RECURSIVE take_matching_and(_, _)
take_matching_and(p, v) ==
    IF v = <<>> THEN [p |-> p, r |-> None]
    ELSE LET n == try_fold(p, Head(v)[1], 0)
         IN  IF n.p.panicked THEN n
             ELSE IF is_some(n.r)
             THEN LET k == skip(n.p, n.r.v[1])
                  IN  [p |-> k.p,
                       r |-> IF k.p.panicked THEN Panic ELSE Some(Head(v)[2])]
             ELSE take_matching_and(n.p, Tail(v))

\* Parser::take_matching: find_map over the literals
RECURSIVE take_matching(_, _)
take_matching(p, v) ==
    IF v = <<>> THEN [p |-> p, r |-> None]
    ELSE LET n == try_fold(p, Head(v), 0)
         IN  IF n.p.panicked THEN n
             ELSE IF is_some(n.r)
             THEN LET k == skip(n.p, n.r.v[1])
                  IN  [p |-> k.p,
                       r |-> IF k.p.panicked THEN Panic
                             ELSE [tag |-> "Some", v |-> Head(v)]]
             ELSE take_matching(n.p, Tail(v))

\* ------------------------------------------------------------------ inputs
\* the closures handed to next_if and skip_if, as the sets they accept
Closures == {{}, {CH_a, CH_b}, Digits, 0..255}
\* the literal lists handed to take_matching, each literal as the bytes of
\* the &'static str; the last list is ["\u{e9}"], whose bytes are C3 A9
Candidates == {<<(<<CH_a, ZERO>>)>>,
               <<(<<CH_a>>), <<CH_a, CH_a>>>>,
               <<(<<CH_a, CH_a>>), <<CH_a>>>>,
               <<(<<MINUS, ONE>>), <<SP>>>>,
               <<(<<195, 169>>)>>}
\* the same lists with a value for each literal: its place in the list
WithValues(v) == [i \in 1..Len(v) |-> <<v[i], i>>]

\* sources of the tests of parser.rs and of the examples of the prose, and
\* two with bytes above 0x7f (the two bytes of an UTF-8 encoded U+00E9,
\* and the byte E9 that the cursor decodes to the character U+00E9)
Examples == {
    <<195, 169, CH_a>>,
    <<233, CH_a>>,
    <<CH_a, CH_a, CH_a, CH_b>>,
    <<CH_a, CH_b, 99>>,
    <<SP, SP, NL, ONE>>,
    <<ONE, NL, NL, 50>>,
    <<SP, ONE, SP, SP, MINUS, 56>>,
    <<ZERO, ZERO, ZERO, ONE>>,
    <<MINUS, 53>> }

Sources == SeqsUpTo(Alphabet, MaxLen) \cup Examples

\* the decimal literals at the two ends of the i32 range, one inside and
\* one outside at each end, and an in-range literal followed by other text
IntSources == {
    <<50, 49, 52, 55, 52, 56, 51, 54, 52, 55>>,
    <<50, 49, 52, 55, 52, 56, 51, 54, 52, 56>>,
    <<MINUS, 50, 49, 52, 55, 52, 56, 51, 54, 52, 56>>,
    <<MINUS, 50, 49, 52, 55, 52, 56, 51, 54, 52, 57>>,
    <<MINUS, ONE, 50, CH_a, ONE>>,
    <<ZERO, ZERO, ONE, MINUS, ONE>> }

\* the consumers before they start: try_fold(0, ..), skip_mul = false,
\* HashMap::new(), no grid and no Steps built yet, no position collected
NoGrid == [width |-> 0, height |-> 0, data |-> <<>>]
NoSteps == [width |-> 0, height |-> 0, positions |-> {}, obstacle |-> None,
            initial |-> <<0, 0>>, current |-> None, direction |-> <<0, -1>>]
NotStarted ==
    /\ acc = 0
    /\ skip_mul = FALSE
    /\ cache = [s \in {} |-> 0]
    /\ grid = NoGrid
    /\ steps = NoSteps
    /\ collected = {}
    /\ seen = {}
    /\ todo = {}
    /\ yields = 0

\* Parser::new on the source S
new(S) ==
    /\ input \in S
    /\ source = input
    /\ peeked = <<>>
    /\ peeked_container = <<>>
    /\ consumed = <<>>
    /\ polls = 0
    /\ panicked = FALSE
    /\ op = "new"
    /\ arg = <<>>
    /\ ret = Unit
    /\ NotStarted

\* the sources with a read that fails
ErrSources ==
    {S \in SeqsUpTo({CH_a, ONE, ERR}, MaxErrLen) :
         \E i \in 1..Len(S) : S[i] = ERR}

Init == new(Sources)
InitInt == new(IntSources)
InitErr == new(ErrSources)

\* the cursor after a method returned res = [p |-> cursor, r |-> value]
Cursor(name, a, res) ==
    /\ source' = res.p.source
    /\ peeked' = res.p.peeked
    /\ peeked_container' = res.p.peeked_container
    /\ consumed' = res.p.consumed
    /\ polls' = res.p.polls
    /\ panicked' = res.p.panicked
    /\ op' = name
    /\ arg' = a
    /\ ret' = res.r
    /\ UNCHANGED input

\* the state after a method called on the cursor itself returned res
Apply(name, a, res) == Cursor(name, a, res) /\ UNCHANGED consumers

DoPeek == ~panicked /\ Apply("peek", <<>>, peek(Cur))
DoNext == ~panicked /\ Apply("next", <<>>, next(Cur))

DoPeekN == ~panicked /\ \E n \in 0..MaxPeek : Apply("peek_n", <<n>>, peek_n(Cur, n))
DoNextIf == ~panicked /\ \E f \in Closures : Apply("next_if", <<f>>, next_if(Cur, f))
DoNextIfEq == ~panicked /\ \E c \in Alphabet : Apply("next_if_eq", <<c>>, next_if_eq(Cur, c))
DoSkip == ~panicked /\ \E n \in 0..MaxPeek : Apply("skip", <<n>>, skip(Cur, n))
DoSkipIf == ~panicked /\ \E f \in Closures : Apply("skip_if", <<f>>, skip_if(Cur, f))
DoSkipIfEq == ~panicked /\ \E c \in Alphabet : Apply("skip_if_eq", <<c>>, skip_if_eq(Cur, c))
\* the outcomes to choose from: all of them when the call reaches the
\* undefined unwrap, one when it does not (its result does not depend on it)
Outcomes(undefined) == IF undefined THEN UBOutcomes ELSE {Panic}
DoInteger ==
    /\ ~panicked
    /\ \E ub \in Outcomes(integer(Cur, Panic).r = Panic) :
           Apply("integer", <<>>, integer(Cur, ub))
DoNextInteger ==
    /\ ~panicked
    /\ \E ub \in Outcomes(next_integer(Cur, Panic).r = Panic) :
           Apply("next_integer", <<>>, next_integer(Cur, ub))
DoTakeNewline == ~panicked /\ Apply("take_newline", <<>>, take_newline(Cur))
DoEof == ~panicked /\ Apply("eof", <<>>, eof(Cur))
DoTakeMatching == ~panicked /\ \E v \in Candidates : Apply("take_matching", <<v>>, take_matching(Cur, v))
DoTakeMatchingAnd == ~panicked /\ \E v \in Candidates : Apply("take_matching_and", <<v>>, take_matching_and(Cur, WithValues(v)))

Next ==
    \/ DoPeek
    \/ DoPeekN
    \/ DoNext
    \/ DoNextIf
    \/ DoNextIfEq
    \/ DoSkip
    \/ DoSkipIf
    \/ DoSkipIfEq
    \/ DoInteger
    \/ DoNextInteger
    \/ DoTakeNewline
    \/ DoEof
    \/ DoTakeMatching
    \/ DoTakeMatchingAnd

Spec == Init /\ [][Next]_vars
\* the same cursor on the sources that reach the ends of the i32 range
SpecInt == InitInt /\ [][Next]_vars
\* the same cursor on the sources with a read that fails
SpecErr == InitErr /\ [][Next]_vars

\* ------------------------------------------------------------------ day_03
\* the literals of Instructions::instr as their bytes: "mul(", "do()" and
\* "don't()"
LIT_mul == <<109, 117, 108, 40>>
LIT_do == <<100, 111, 40, 41>>
LIT_dont == <<100, 111, 110, 39, 116, 40, 41>>
COMMA == 44
RPAREN == 41

\* enum Instruction
Do == [tag |-> "Do", v |-> <<>>]
Dont == [tag |-> "Dont", v |-> <<>>]
Mul(a, b) == [tag |-> "Mul", v |-> <<a, b>>]
\* the Ok(n) a part returns; the number stands for its decimal string
Ok(n) == [tag |-> "Ok", v |-> <<n>>]

\* Instructions::instr, the "mul(" arm from its end to its start, each
\* step on the results of the steps before it: the value of the arm
instr_close(left, right, close) ==
    IF is_some(close.r)
    THEN [p |-> close.p, r |-> Some(Mul(left.r.v[1], right.r.v[1]))]
    ELSE close
\* ... .and_then(|_| self.parser.integer())?, then next_if_eq(')')
instr_right(left, right) ==
    IF is_some(right.r)
    THEN instr_close(left, right, next_if_eq(right.p, RPAREN))
    ELSE right
\* self.parser.next_if_eq(','), then the second integer()
instr_comma(left, comma, ub) ==
    IF is_some(comma.r) THEN instr_right(left, integer(comma.p, ub))
    ELSE comma
\* let left = self.parser.integer()?, then next_if_eq(',')
instr_left(left, ub) ==
    IF is_some(left.r) THEN instr_comma(left, next_if_eq(left.p, COMMA), ub)
    ELSE left
\* the match on what take_matching returned (m); its ? leaves with None
instr_match(m, ub) ==
    IF m.r.tag # "Some" THEN m
    ELSE IF m.r.v = LIT_mul THEN instr_left(integer(m.p, ub), ub)
    ELSE IF m.r.v = LIT_do THEN [p |-> m.p, r |-> Some(Do)]
    ELSE [p |-> m.p, r |-> Some(Dont)]
\* Instructions::instr
instr(p, ub) == instr_match(take_matching(p, <<LIT_mul, LIT_do, LIT_dont>>), ub)

\* Instructions::next: while eof() is None, return the instruction instr()
\* finds or drop one character with next() and try again
RECURSIVE Instructions_next(_, _)
\* the body of the loop on what instr() returned (i)
Instructions_body(i, ub) ==
    IF i.p.panicked \/ is_some(i.r) THEN i
    ELSE Instructions_next(next(i.p).p, ub)
\* the test of the loop on what eof() returned (e)
Instructions_while(e, ub) ==
    IF e.p.panicked THEN e
    ELSE IF is_some(e.r) THEN [p |-> e.p, r |-> None]
    ELSE Instructions_body(instr(e.p, ub), ub)
Instructions_next(p, ub) == Instructions_while(eof(p), ub)

\* the closure of part_1's try_fold
part_1_fold(a, i) == IF i.tag = "Mul" THEN a + i.v[1] * i.v[2] ELSE a

\* the closure of part_2's try_fold on the accumulator a and the captured
\* skip_mul (sm): what it returns and what it leaves in skip_mul
part_2_fold(a, sm, i) ==
    IF i.tag = "Mul" /\ ~sm
    THEN [acc |-> a + i.v[1] * i.v[2], skip_mul |-> sm]
    ELSE IF i.tag = "Do" THEN [acc |-> a, skip_mul |-> FALSE]
    ELSE IF i.tag = "Dont" THEN [acc |-> a, skip_mul |-> TRUE]
    ELSE [acc |-> a, skip_mul |-> sm]

\* the inputs of the two tests of day_03.rs
Day03Tests == {
    <<120, 109, 117, 108, 40, 50, 44, 52, 41, 37, 38, 109, 117, 108, 91,
    51, 44, 55, 93, 33, 64, 94, 100, 111, 95, 110, 111, 116, 95, 109, 117,
    108, 40, 53, 44, 53, 41, 43, 109, 117, 108, 40, 51, 50, 44, 54, 52,
    93, 116, 104, 101, 110, 40, 109, 117, 108, 40, 49, 49, 44, 56, 41,
    109, 117, 108, 40, 56, 44, 53, 41, 41, 10, 32, 32, 32, 32>>,
    <<120, 109, 117, 108, 40, 50, 44, 52, 41, 38, 109, 117, 108, 91, 51,
    44, 55, 93, 33, 94, 100, 111, 110, 39, 116, 40, 41, 95, 109, 117, 108,
    40, 53, 44, 53, 41, 43, 109, 117, 108, 40, 51, 50, 44, 54, 52, 93, 40,
    109, 117, 108, 40, 49, 49, 44, 56, 41, 117, 110, 100, 111, 40, 41, 63,
    109, 117, 108, 40, 56, 44, 53, 41, 41>> }

\* the pieces the other inputs are put together from: "mul(", "mul(2,3)",
\* "mul(4,", "5)", "do()", "don't()" and "x"
Day03Pieces == {
    LIT_mul,
    LIT_mul \o <<50, COMMA, 51, RPAREN>>,
    LIT_mul \o <<52, COMMA>>,
    <<53, RPAREN>>,
    LIT_do,
    LIT_dont,
    <<120>> }

\* the concatenations of at most n pieces
RECURSIVE Pieced(_, _)
Pieced(P, n) ==
    IF n = 0 THEN {<<>>}
    ELSE LET T == Pieced(P, n - 1) IN T \cup {t \o x : t \in T, x \in P}

Day03Sources == Pieced(Day03Pieces, MaxPieces) \cup Day03Tests

InitDay03 == new(Day03Sources)

\* one round of part_1's try_fold: Instructions::next, then the closure;
\* at the end of the instructions part_1 returns Ok(acc)
DoDay03Part1 ==
    /\ ~panicked /\ op \in {"new", "day_03::part_1"} /\ ret.tag # "Ok"
    /\ \E ub \in UBOutcomes :
       \E n \in {Instructions_next(Cur, ub)} :
           /\ Cursor("day_03::part_1", <<>>,
                     [p |-> n.p,
                      r |-> IF n.r.tag = "None" THEN Ok(acc) ELSE n.r])
           /\ acc' = IF is_some(n.r) THEN part_1_fold(acc, n.r.v[1]) ELSE acc
    /\ UNCHANGED <<skip_mul, cache, grid, steps, collected, seen, todo, yields>>

\* one round of part_2's try_fold
DoDay03Part2 ==
    /\ ~panicked /\ op \in {"new", "day_03::part_2"} /\ ret.tag # "Ok"
    /\ \E ub \in UBOutcomes :
       \E n \in {Instructions_next(Cur, ub)} :
       \E f \in {IF is_some(n.r) THEN part_2_fold(acc, skip_mul, n.r.v[1])
                 ELSE [acc |-> acc, skip_mul |-> skip_mul]} :
           /\ Cursor("day_03::part_2", <<>>,
                     [p |-> n.p,
                      r |-> IF n.r.tag = "None" THEN Ok(acc) ELSE n.r])
           /\ acc' = f.acc
           /\ skip_mul' = f.skip_mul
    /\ UNCHANGED <<cache, grid, steps, collected, seen, todo, yields>>

NextDay03 ==
    \/ DoDay03Part1
    \/ DoDay03Part2

\* the two parts of day_03 on a cursor over the day_03 inputs
SpecDay03 == InitDay03 /\ [][NextDay03]_vars

\* ------------------------------------------------------------------ day_06
\* the characters of a map
DOT == 46
BLOCK == 35
GUARD == 94

\* usize::checked_sub, and checked_add (no sum of the model nears 2^64)
checked_sub(a, b) == IF a < b THEN None ELSE Some(a - b)
checked_add(a, b) == Some(a + b)
\* Vec2::try_add: each component with checked_sub or checked_add, then the
\* test against max
try_add(self, d, max) ==
    LET x == IF d[1] < 0 THEN checked_sub(self[1], -d[1])
             ELSE checked_add(self[1], d[1])
        y == IF d[2] < 0 THEN checked_sub(self[2], -d[2])
             ELSE checked_add(self[2], d[2])
    IN  IF x = None \/ y = None THEN None
        ELSE IF x.v[1] > max[1] \/ y.v[1] > max[2] THEN None
        ELSE Some(<<x.v[1], y.v[1]>>)

\* Vec2::rotate_clockwise
rotate_clockwise(d) == <<-d[2], d[1]>>

\* one round of the loop of Steps::try_from: the item of index i (from 0)
\* is the byte b, st the locals (width, height, positions, start)
try_from_round(st, i, b) ==
    LET c == byte_to_char(b)
        here == <<i - (st.height * st.width) - st.height, st.height>>
    IN  IF c = NL
        THEN [st EXCEPT !.width = IF @ = 0 THEN i ELSE @, !.height = @ + 1]
        ELSE IF c = BLOCK THEN [st EXCEPT !.positions = @ \cup {here}]
        ELSE IF c = GUARD THEN [st EXCEPT !.start = Some(here)]
        ELSE st

\* the rounds of the loop of Steps::try_from for the items of index lo to
\* hi - 1, one after the other (evaluated half by half)
RECURSIVE try_from_loop(_, _, _, _)
try_from_loop(bs, lo, hi, st) ==
    IF hi = lo THEN st
    ELSE IF hi = lo + 1 THEN try_from_round(st, lo, bs[lo + 1])
    ELSE CHOOSE r \in {try_from_loop(bs, (lo + hi) \div 2, hi, t) :
                          t \in {try_from_loop(bs, lo, (lo + hi) \div 2, st)}} :
             TRUE

\* Steps::try_from: Err without a block or without a start position
try_from(bs) ==
    LET st == try_from_loop(bs, 0, Len(bs),
                            [width |-> 0, height |-> 0, positions |-> {},
                             start |-> None])
    IN  IF st.positions = {} \/ st.start = None
        THEN [tag |-> "Err", v |-> <<>>]
        ELSE Ok([width |-> st.width, height |-> st.height,
                 positions |-> st.positions, obstacle |-> None,
                 initial |-> st.start.v[1], current |-> None,
                 direction |-> <<0, -1>>])

\* Steps::next_step
next_step(s) ==
    IF s.current = None THEN None
    ELSE try_add(s.current.v[1], s.direction, <<s.width, s.height>>)

\* Steps::reset_with_obstacle
reset_with_obstacle(s, obstacle) ==
    [s EXCEPT !.current = None,
              !.direction = <<0, -1>>,
              !.positions = IF s.obstacle = None THEN @ \cup {obstacle}
                            ELSE (@ \cup {obstacle}) \ {s.obstacle.v[1]},
              !.obstacle = Some(obstacle)]

\* <Steps as Iterator>::next: the Steps it leaves (s) and the item (r)
Steps_next(s) ==
    IF s.current = None
    THEN [s |-> [s EXCEPT !.current = Some(s.initial)],
          r |-> Some(<<s.initial, s.direction>>)]
    ELSE IF next_step(s) = None THEN [s |-> s, r |-> None]
    ELSE IF next_step(s).v[1] \in s.positions
    THEN [s |-> [s EXCEPT !.direction = rotate_clockwise(@)],
          r |-> Some(<<s.current.v[1], rotate_clockwise(s.direction)>>)]
    ELSE [s |-> [s EXCEPT !.current = next_step(s)],
          r |-> Some(<<next_step(s).v[1], s.direction>>)]

\* Steps::size_hint: the upper bound it states
size_hint(s) == s.width * s.height

\* the cells of a map of w columns and h rows
Cells(w, h) == (0..(w - 1)) \X (0..(h - 1))
\* the text of the map of w columns and h rows with the guard at g and the
\* blocks B, with a newline after the last row when nl = 1
MapText(w, h, g, B, nl) ==
    [k \in 1..(h * (w + 1) - (1 - nl)) |->
        LET x == (k - 1) % (w + 1)
            y == (k - 1) \div (w + 1)
        IN  IF x = w THEN NL
            ELSE IF <<x, y>> = g THEN GUARD
            ELSE IF <<x, y>> \in B THEN BLOCK
            ELSE DOT]
\* the maps of the tests of day_06.rs
Day06Tests == {
    <<46, 46, 46, 46, 35, 46, 46, 46, 46, 46, 10, 46, 46, 46, 46, 46, 46,
    46, 46, 46, 35, 10, 46, 46, 46, 46, 46, 46, 46, 46, 46, 46, 10, 46,
    46, 35, 46, 46, 46, 46, 46, 46, 46, 10, 46, 46, 46, 46, 46, 46, 46,
    35, 46, 46, 10, 46, 46, 46, 46, 46, 46, 46, 46, 46, 46, 10, 46, 35,
    46, 46, 94, 46, 46, 46, 46, 46, 10, 46, 46, 46, 46, 46, 46, 46, 46,
    35, 46, 10, 35, 46, 46, 46, 46, 46, 46, 46, 46, 46, 10, 46, 46, 46,
    46, 46, 46, 35, 46, 46, 46>>,
    <<46, 35, 46, 46, 10, 46, 46, 46, 35, 10, 46, 46, 46, 46, 10, 46, 94,
    35, 46>> }
\* every map of at most MaxSide columns and rows with a guard and one to
\* MaxBlocks blocks, with and without the newline at its end
MapsOf(w, h) ==
    UNION {{MapText(w, h, g, B, nl) :
                B \in {C \in SUBSET (Cells(w, h) \ {g}) :
                           Cardinality(C) \in 1..MaxBlocks},
                nl \in {0, 1}} :
           g \in Cells(w, h)}
Maps == UNION {MapsOf(w, h) : w \in 1..MaxSide, h \in 1..MaxSide}
Day06Sources == Maps \cup Day06Tests

\* the input before anything has read it: no cursor is built on it
unread(S) ==
    /\ input \in S
    /\ source = input
    /\ peeked = <<>>
    /\ peeked_container = <<>>
    /\ consumed = <<>>
    /\ polls = 0
    /\ panicked = FALSE
    /\ op = "start"
    /\ arg = <<>>
    /\ ret = Unit
    /\ NotStarted

InitDay06 == unread(Day06Sources)

\* what an action of day_06 leaves alone: the cursor and the other programs
Day06Frame ==
    UNCHANGED <<input, source, peeked, peeked_container, consumed, polls,
                panicked, skip_mul, cache, grid>>

\* Steps::try_from(input), first statement of part_1 and of part_2
DoTryFrom ==
    /\ op = "start"
    /\ \E t \in {try_from(input)} :
           /\ steps' = IF t.tag = "Ok" THEN t.v[1] ELSE steps
           /\ ret' = IF t.tag = "Ok" THEN Unit ELSE t
    /\ op' = "Steps::try_from"
    /\ arg' = <<>>
    /\ UNCHANGED <<acc, collected, seen, todo, yields>>
    /\ Day06Frame

\* one Steps::next called by the collect() of part_1 and part_2: its
\* position goes to the HashSet; at None part_1 returns the set's len() and
\* part_2 has its positions
DoCollect ==
    /\ op \in {"Steps::try_from", "collect"} /\ ret.tag \in {"Unit", "Some"}
    /\ yields < size_hint(steps) + MaxExtra
    /\ \E n \in {Steps_next(steps)} :
           /\ steps' = n.s
           /\ IF is_some(n.r)
              THEN /\ collected' = collected \cup {n.r.v[1][1]}
                   /\ yields' = yields + 1
                   /\ op' = "collect"
                   /\ ret' = n.r
                   /\ todo' = todo
              ELSE /\ collected' = collected
                   /\ yields' = yields
                   /\ op' = "day_06::part_1"
                   /\ ret' = Ok(Cardinality(collected))
                   /\ todo' = collected
    /\ arg' = <<>>
    /\ UNCHANGED <<acc, seen>>
    /\ Day06Frame

\* the position the fold of part_2 takes next from positions.iter(); a
\* HashSet iterates in an order of its own, here by row, then by column
NextPosition(T) ==
    CHOOSE p \in T : \A q \in T : p[2] < q[2] \/ (p[2] = q[2] /\ p[1] <= q[1])

\* the start of one round of part_2's fold: seen.clear() and
\* steps.reset_with_obstacle(*p)
DoResetWithObstacle ==
    /\ \/ op = "day_06::part_1"
       \/ op = "any" /\ ret.tag = "Bool"
    /\ todo # {}
    /\ steps' = reset_with_obstacle(steps, NextPosition(todo))
    /\ seen' = {}
    /\ todo' = todo \ {NextPosition(todo)}
    /\ yields' = 0
    /\ op' = "reset_with_obstacle"
    /\ arg' = <<NextPosition(todo)>>
    /\ ret' = Unit
    /\ UNCHANGED <<acc, collected>>
    /\ Day06Frame

\* a bool returned by any()
Bool(b) == [tag |-> "Bool", v |-> <<b>>]

\* one Steps::next called by steps.by_ref().any(|step| !seen.insert(step)):
\* any() returns true at the first step seen before (the fold then adds one
\* to acc) and false at None
DoAny ==
    /\ op \in {"reset_with_obstacle", "any"} /\ ret.tag \in {"Unit", "Some"}
    /\ \E n \in {Steps_next(steps)} :
           /\ steps' = n.s
           /\ yields' = IF is_some(n.r) THEN yields + 1 ELSE yields
           /\ seen' = IF is_some(n.r) THEN seen \cup {n.r.v[1]} ELSE seen
           /\ ret' = IF ~is_some(n.r) THEN Bool(FALSE)
                     ELSE IF n.r.v[1] \in seen THEN Bool(TRUE)
                     ELSE n.r
           /\ acc' = IF is_some(n.r) /\ n.r.v[1] \in seen THEN acc + 1 ELSE acc
    /\ op' = "any"
    /\ arg' = <<>>
    /\ UNCHANGED <<collected, todo>>
    /\ Day06Frame

\* the end of part_2's fold: Ok(num_loops.to_string())
DoPart2Return ==
    /\ \/ op = "day_06::part_1"
       \/ op = "any" /\ ret.tag = "Bool"
    /\ todo = {}
    /\ op' = "day_06::part_2"
    /\ arg' = <<>>
    /\ ret' = Ok(acc)
    /\ UNCHANGED <<acc, steps, collected, seen, todo, yields>>
    /\ Day06Frame

NextDay06 ==
    \/ DoTryFrom
    \/ DoCollect
    \/ DoResetWithObstacle
    \/ DoAny
    \/ DoPart2Return

\* the two parts of day_06 on the maps
SpecDay06 == InitDay06 /\ [][NextDay06]_vars

\* ------------------------------------------------------------------ day_01
\* anyhow::Result::Err with the text of the error
Err(msg) == [tag |-> "Err", v |-> <<msg>>]

\* Pairs::next from its end to its start, each step on the results of the
\* steps before it: .or_else(|| self.parser.eof()), then .and(..).or(..)
Pairs_eof(left, right, e) ==
    IF e.p.panicked THEN e
    ELSE IF is_some(e.r)
    THEN [p |-> e.p, r |-> Some(Ok(<<left.r.v[1], right.r.v[1]>>))]
    ELSE [p |-> e.p,
          r |-> Some(Err("expected line to end after second integer"))]
\* self.parser.take_newline() ...
Pairs_newline(left, right, n) ==
    IF n.p.panicked THEN n
    ELSE IF is_some(n.r)
    THEN [p |-> n.p, r |-> Some(Ok(<<left.r.v[1], right.r.v[1]>>))]
    ELSE Pairs_eof(left, right, eof(n.p))
\* let right = if let Some(n) = self.parser.integer() { n } else { .. }
Pairs_right(left, right) ==
    IF right.p.panicked THEN right
    ELSE IF is_some(right.r)
    THEN Pairs_newline(left, right, take_newline(right.p))
    ELSE [p |-> right.p, r |-> Some(Err("expect two integers per-line"))]
\* let left = self.parser.integer()?
Pairs_left(left, ub) ==
    IF is_some(left.r) THEN Pairs_right(left, integer(left.p, ub)) ELSE left
\* <Pairs as Iterator>::next
Pairs_next(p, ub) == Pairs_left(integer(p, ub), ub)

\* the inputs of the tests of day_01.rs, the only shape of line the code
\* takes ("1-1"), and a lone sign
Day01Tests == {
    <<51, 32, 32, 32, 52, 10, 52, 32, 32, 32, 51, 10, 50, 32, 32, 32, 53,
    10, 49, 32, 32, 32, 51, 10, 51, 32, 32, 32, 57, 10, 51, 32, 32, 32,
    51>>,
    <<49, 49, 32, 32, 32, 49, 53, 10, 52, 32, 32, 32, 49, 56, 10, 49, 53,
    32, 32, 32, 50, 48, 51>>,
    <<ONE, MINUS, ONE>>,
    <<ONE, SP, MINUS, ONE, NL>>,
    <<MINUS, SP, ONE>> }
Day01Sources == SeqsUpTo({ONE, SP, NL}, MaxLines) \cup Day01Tests

InitDay01 == new(Day01Sources)

\* one round of the loop `for pair in pairs` of part_1 and part_2; pair?
\* leaves the loop at the first Err, the end of the pairs at None
DoPairsNext ==
    /\ ~panicked
    /\ \/ op = "new"
       \/ op = "Pairs::next" /\ is_some(ret) /\ ret.v[1].tag = "Ok"
    /\ \E ub \in UBOutcomes :
           Cursor("Pairs::next", <<>>, Pairs_next(Cur, ub))
    /\ UNCHANGED consumers

NextDay01 == DoPairsNext

\* the Pairs iterator of day_01 on a cursor over the day_01 inputs
SpecDay01 == InitDay01 /\ [][NextDay01]_vars

\* ------------------------------------------------------------------ day_11
\* while let Some(c) = parser.next_if(|c| c.is_ascii_digit()) { s.push(c) }
\* on the builder s
Stones_digits(p, s) == integer_digits(p, s)
\* if let Some(n) = cache.get_mut(&s) { *n + 1 } else { cache.insert(s, 1) }
Stones_count(c, s) ==
    IF s \in DOMAIN c THEN [c EXCEPT ![s] = c[s] + 1]
    ELSE [t \in DOMAIN c \cup {s} |-> IF t = s THEN 1 ELSE c[t]]
\* the body of the loop of Stones::from on the cursor k that skip_if_eq
\* left: the digits pushed to a new builder
Stones_body(k) ==
    IF k.p.panicked THEN [p |-> k.p, s |-> <<>>] ELSE Stones_digits(k.p, <<>>)

\* the input of the test of day_11.rs
Day11Tests == { <<49, 50, 53, 32, 49, 55>> }
Day11Sources == SeqsUpTo({ONE, SP, NL}, MaxStones) \cup Day11Tests

InitDay11 == new(Day11Sources)

\* one round of `while parser.eof().is_none()`: the test that lets the
\* round start, then its body; a round is not started once a stone was
\* counted MaxRounds times
DoStonesRound ==
    /\ ~panicked
    /\ op \in {"new", "Stones::from loop"}
    /\ \A s \in DOMAIN cache : cache[s] < MaxRounds
    /\ \E e \in {eof(Cur)} :
           /\ ~e.p.panicked
           /\ ~is_some(e.r)
           /\ \E d \in {Stones_body(skip_if_eq(e.p, SP))} :
                  /\ Cursor("Stones::from loop", <<>>, [p |-> d.p, r |-> Str(d.s)])
                  /\ cache' = Stones_count(cache, d.s)
    /\ UNCHANGED <<acc, skip_mul, grid, steps, collected, seen, todo, yields>>

\* the test of the loop finds the end of the input: Self { cache }
DoStonesReturn ==
    /\ ~panicked
    /\ op \in {"new", "Stones::from loop"}
    /\ \E e \in {eof(Cur)} :
           /\ e.p.panicked \/ is_some(e.r)
           /\ Cursor("Stones::from", <<>>, e)
    /\ UNCHANGED consumers

NextDay11 ==
    \/ DoStonesRound
    \/ DoStonesReturn

\* Stones::from of day_11 on a cursor over the day_11 inputs
SpecDay11 == InitDay11 /\ [][NextDay11]_vars

\* -------------------------------------------------------------------- grid
\* one round of `for c in value` of Grid2D::from on the grid g
Grid2D_from_round(g, c) ==
    IF c = NL THEN [g EXCEPT !.height = g.height + 1]
    ELSE [width  |-> IF g.height = 1 THEN g.width + 1 ELSE g.width,
          height |-> g.height,
          data   |-> Append(g.data, c)]
\* the loop `for c in value` from the character i on
RECURSIVE Grid2D_from_loop(_, _, _)
Grid2D_from_loop(cs, i, g) ==
    IF i > Len(cs) THEN g
    ELSE Grid2D_from_loop(cs, i + 1, Grid2D_from_round(g, cs[i]))
\* Grid2D::from
Grid2D_from(cs) ==
    Grid2D_from_loop(cs, 1, [width |-> 0, height |-> 1, data |-> <<>>])

\* Grid2D::idx
idx(g, p) == p[2] * g.width + p[1]
\* Vec::get, the index counted from 0
Vec_get(data, i) == IF i < Len(data) THEN Some(data[i + 1]) ELSE None
\* Grid2D::get
Grid2D_get(g, p) ==
    IF p[1] >= g.width \/ p[2] >= g.height THEN None
    ELSE Vec_get(g.data, idx(g, p))
\* what data.get_unchecked(i) can do with i outside data (undefined
\* behaviour): the read faults, or it returns the memory after the buffer
UBChars == {0, CH_a, 255}
UBReads == {Panic} \cup {Some(c) : c \in UBChars}
\* Grid2D::get_unchecked; ub is the outcome taken outside data
get_unchecked(g, p, ub) ==
    IF idx(g, p) < Len(g.data) THEN Some(g.data[idx(g, p) + 1]) ELSE ub
\* the position that iter() gives to its item k, counted from 0: the rows
\* 0..height outside, the columns 0..width inside
iter_position(g, k) == <<k % g.width, k \div g.width>>
\* the item k of Grid2D::iter
iter_item(g, k, ub) ==
    IF k >= g.width * g.height THEN None
    ELSE IF get_unchecked(g, iter_position(g, k), ub) = Panic THEN Panic
    ELSE Some(<<iter_position(g, k),
                get_unchecked(g, iter_position(g, k), ub).v[1]>>)

\* str::chars of an ASCII text given as its bytes
chars(S) == [i \in 1..Len(S) |-> byte_to_char(S[i])]

\* the input of the tests of grid.rs
GridTests == { <<97, 98, 99, 100, 10, 101, 102, 103, 104, 10, 105, 106, 107, 108>> }
GridSources == SeqsUpTo({CH_a, NL}, MaxGrid) \cup GridTests
\* the positions asked of get(): every cell and one column and row more
GridPositions == (0..(MaxGrid + 1)) \X (0..(MaxGrid + 1))

InitGrid == unread(GridSources)

GridFrame ==
    UNCHANGED <<input, source, peeked, peeked_container, consumed, polls,
                acc, skip_mul, cache, steps, collected, seen, todo>>

\* Grid2D::from(input.chars())
DoGridFrom ==
    /\ op = "start"
    /\ grid' = Grid2D_from(chars(input))
    /\ op' = "Grid2D::from"
    /\ arg' = <<>>
    /\ ret' = Unit
    /\ UNCHANGED <<yields, panicked>>
    /\ GridFrame

\* grid.get(p)
DoGridGet ==
    /\ ~panicked
    /\ op # "start"
    /\ \E p \in GridPositions :
           /\ arg' = <<p>>
           /\ ret' = Grid2D_get(grid, p)
    /\ op' = "Grid2D::get"
    /\ UNCHANGED <<grid, yields, panicked>>
    /\ GridFrame

\* one next() of the iterator of grid.iter(); yields counts its items
DoGridIter ==
    /\ ~panicked
    /\ op # "start"
    /\ ret # None \/ op # "Grid2D::iter"
    /\ \E ub \in UBReads :
        \E r \in {iter_item(grid, yields, ub)} :
           /\ ret' = r
           /\ panicked' = (r = Panic)
           /\ yields' = IF is_some(r) THEN yields + 1 ELSE yields
    /\ op' = "Grid2D::iter"
    /\ arg' = <<>>
    /\ UNCHANGED grid
    /\ GridFrame

NextGrid ==
    \/ DoGridFrom
    \/ DoGridGet
    \/ DoGridIter

\* a Grid2D built from the grid inputs, then read with get() and iter()
SpecGrid == InitGrid /\ [][NextGrid]_vars

\* ------------------------------------------------------------ the claims
\* the source decoded one byte to one character
Decoded(S) == [i \in 1..Len(S) |-> byte_to_char(S[i])]
\* the characters of the input no operation has consumed yet
Unconsumed == Drop(Decoded(input), Len(consumed))
\* what the next character of the stream is, as an Option<char>
Upcoming == IF Unconsumed = <<>> THEN None ELSE Some(Unconsumed[1])

\* C1: every call of next() returns the first character of the input that
\* was not consumed yet and consumes exactly it, one character per byte;
\* when the whole input was consumed it returns None and what was consumed
\* is the input decoded one byte to one character.
C1_NextYieldsSource ==
    [][op' = "next" =>
         IF Len(consumed) < Len(input)
         THEN /\ ret' = Some(byte_to_char(input[Len(consumed) + 1]))
              /\ consumed' = Append(consumed, ret'.v[1])
         ELSE /\ ret' = None
              /\ consumed' = consumed
              /\ consumed = Decoded(input)]_vars

\* next() has returned None after handing out the three characters of "abc"
C1_Witness ==
    /\ op = "next" /\ ret = None
    /\ input = <<CH_a, CH_b, 99>> /\ consumed = input

\* C2: peek() consumes nothing and returns the upcoming character; a peek()
\* that follows a peek() returns the same result; the next() that follows a
\* peek() returns that same value and consumes exactly that one character
\* (nothing when the value is None, the stream being exhausted).
C2_PeekIdempotent ==
    [][/\ op' = "peek" => consumed' = consumed /\ ret' = Upcoming
       /\ (op = "peek" /\ op' = "peek") => ret' = ret
       /\ (op = "peek" /\ op' = "next") =>
              /\ ret' = ret
              /\ consumed' = IF is_some(ret) THEN Append(consumed, ret.v[1])
                             ELSE consumed]_vars

\* a peek() answered from the buffer: the character was peeked before
C2_Witness ==
    /\ op = "peek" /\ is_some(ret) /\ polls = 0
    /\ peeked # <<>> /\ source # <<>>

\* C3: the consumed characters, then the lookahead buffer from its back
\* (the next character) to its front (the furthest pre-fetched one), then
\* the items not read from the source yet, are the input.
C3_BufferKeepsOrder ==
    consumed \o Reverse(peeked) \o Decoded(source) = Decoded(input)

\* a literal matcher has run with a character consumed, two buffered and
\* one still unread
C3_Witness ==
    /\ op = "take_matching" /\ consumed # <<>>
    /\ Len(peeked) >= 2 /\ source # <<>>

\* C4 as stated: a peek_n(m) that follows a peek_n(n) with m <= n returns
\* the first m characters of the window of the first call and calls
\* source.next() not once.
C4_SmallerPeekNeverReads ==
    [][(op = "peek_n" /\ op' = "peek_n" /\ arg'[1] <= arg[1]) =>
           /\ ret'.v = Take(ret.v, arg'[1])
           /\ polls' = 0]_vars

\* C4 as amended: a peek_n(m) that follows a peek_n(n) with m <= n returns
\* the first m characters of the window of the first call; it calls
\* source.next() not once when that window holds at least m characters, and
\* exactly once (getting the end of the source again) when the source ran
\* out before m characters were buffered.
C4_SmallerPeekReusesBuffer ==
    [][(op = "peek_n" /\ op' = "peek_n" /\ arg'[1] <= arg[1]) =>
           /\ ret'.v = Take(ret.v, arg'[1])
           /\ polls' = IF Len(ret.v) >= arg'[1] THEN 0 ELSE 1]_vars

\* a peek_n(m), m >= 1, answered from a buffer that an earlier, longer
\* peek_n filled
C4_Witness ==
    /\ op = "peek_n" /\ arg[1] >= 1 /\ polls = 0
    /\ Len(ret.v) = arg[1] /\ Len(peeked) > arg[1]

\* the characters k calls of next() return, one after the other
RECURSIVE next_times(_, _)
next_times(p, k) ==
    IF k = 0 THEN <<>>
    ELSE LET t == next(p) IN t.r.v \o next_times(t.p, k - 1)

\* C5: with r unconsumed characters, peek_n(n) returns the first min(n, r)
\* of them in source order and consumes none: the min(n, r) calls of next()
\* that follow return the same characters in the same order.
C5_PeekNReturnsWindow ==
    [][op' = "peek_n" =>
         LET m == Min(arg'[1], Len(Unconsumed))
         IN  /\ ret' = Str(Take(Unconsumed, m))
             /\ consumed' = consumed
             /\ next_times(Cur', m) = ret'.v]_vars

\* peek_n(n) has returned fewer than n characters, the source being short,
\* after part of the input was consumed
C5_Witness ==
    /\ op = "peek_n" /\ consumed # <<>>
    /\ Len(ret.v) >= 2 /\ Len(ret.v) < arg[1]

\* C6: when the upcoming character does not satisfy the closure of next_if
\* (differs from the argument of next_if_eq), the call returns None, consumes
\* nothing, and peek() and next() return what they would have returned
\* before the call.
C6_FailedNextIfLeavesCursor ==
    [][(\/ /\ op' = "next_if" /\ is_some(Upcoming)
           /\ Upcoming.v[1] \notin arg'[1]
        \/ /\ op' = "next_if_eq" /\ is_some(Upcoming)
           /\ Upcoming.v[1] # arg'[1]) =>
           /\ ret' = None
           /\ consumed' = consumed
           /\ peek(Cur').r = peek(Cur).r
           /\ next(Cur').r = next(Cur).r]_vars

\* a next_if / next_if_eq has refused a character in the middle of the input
C6_Witness ==
    /\ op \in {"next_if", "next_if_eq"} /\ ret = None
    /\ consumed # <<>> /\ is_some(Upcoming)

\* the length of the longest prefix of s whose characters are all in F
RunLength(s, F) ==
    CHOOSE k \in 0..Len(s) :
        /\ \A i \in 1..k : s[i] \in F
        /\ k < Len(s) => s[k + 1] \notin F

\* C7: skip_if_eq(c) and skip_if(f) consume exactly the longest run of
\* upcoming characters that equal c (satisfy f); the first character that
\* does not match is left as the upcoming one; on "aaab", skip_if_eq('a')
\* consumes three characters and the cursor then yields 'b'.
C7_SkipConsumesLongestRun ==
    [][op' \in {"skip_if_eq", "skip_if"} =>
         LET F == IF op' = "skip_if_eq" THEN {arg'[1]} ELSE arg'[1]
             k == RunLength(Unconsumed, F)
         IN  /\ consumed' = consumed \o Take(Unconsumed, k)
             /\ peek(Cur').r = IF k < Len(Unconsumed)
                               THEN Some(Unconsumed[k + 1]) ELSE None
             /\ (/\ input = <<CH_a, CH_a, CH_a, CH_b>> /\ consumed = <<>>
                 /\ op' = "skip_if_eq" /\ arg' = <<CH_a>>) =>
                    /\ Len(consumed') = 3
                    /\ next(Cur').r = Some(CH_b)]_vars

\* skip_if_eq('a') has consumed the three 'a' of "aaab"
C7_Witness ==
    /\ op = "skip_if_eq" /\ arg = <<CH_a>>
    /\ input = <<CH_a, CH_a, CH_a, CH_b>>
    /\ consumed = <<CH_a, CH_a, CH_a>>

\* the digits of s after an optional '-'
AfterSign(s) == IF s # <<>> /\ s[1] = MINUS THEN Tail(s) ELSE s
\* s starts with an optional '-' followed by one or more ASCII digits
StartsWithInteger(s) == RunLength(AfterSign(s), Digits) >= 1
\* the optional '-' and the maximal run of digits s starts with
IntRun(s) == Take(s, Len(s) - Len(AfterSign(s)) + RunLength(AfterSign(s), Digits))

\* the digits ds, read from the last one, are the decimal digits of v
\* (of -v when neg)
RECURSIVE DenotesDigits(_, _, _)
DenotesDigits(ds, v, neg) ==
    IF ds = <<>> THEN v = 0
    ELSE LET d == ds[Len(ds)] - ZERO
             w == IF neg THEN v + d ELSE v - d
         IN  /\ IF neg THEN v <= 0 ELSE v >= 0
             /\ IF neg THEN w <= 0 ELSE w >= 0
             /\ w % 10 = 0
             /\ DenotesDigits(SubSeq(ds, 1, Len(ds) - 1), w \div 10, neg)
\* the literal run denotes the value v
Denotes(run, v) == DenotesDigits(AfterSign(run), v, run[1] = MINUS)

\* C8: when the unconsumed stream starts with an optional '-' and one or
\* more digits, integer() consumes exactly the '-' and the maximal run of
\* digits and returns Some(v), v the signed decimal value of the run, leading
\* zeros not counting ("0001" gives 1, "-5" gives -5).
C8_IntegerReturnsValue ==
    [][(op' = "integer" /\ StartsWithInteger(Unconsumed)) =>
           /\ consumed' = consumed \o IntRun(Unconsumed)
           /\ is_some(ret')
           /\ Denotes(IntRun(Unconsumed), ret'.v[1])
           /\ Unconsumed = <<ZERO, ZERO, ZERO, ONE>> => ret' = Some(1)
           /\ Unconsumed = <<MINUS, 53>> => ret' = Some(-5)]_vars

\* C9: integer() returns None exactly when the upcoming character is
\* neither a digit nor '-' or there is none, and then it consumed nothing:
\* peek() and next() return what they would have returned before the call.
C9_IntegerNoneConsumesNothing ==
    [][op' = "integer" =>
           /\ (ret' = None) <=>
                  (~is_some(Upcoming) \/ Upcoming.v[1] \notin DigitsOrMinus)
           /\ ret' = None =>
                  /\ consumed' = consumed
                  /\ peek(Cur').r = peek(Cur).r
                  /\ next(Cur').r = next(Cur).r]_vars

\* integer() has returned None in front of a character that is not a digit
C9_Witness ==
    /\ op = "integer" /\ ret = None
    /\ is_some(Upcoming) /\ Upcoming.v[1] = CH_a

\* the digits of the largest i32 and of the modulus of the smallest
LimitPos == <<50, 49, 52, 55, 52, 56, 51, 54, 52, 55>>
LimitNeg == <<50, 49, 52, 55, 52, 56, 51, 54, 52, 56>>
\* digit string a is greater than digit string b of the same length
GreaterDigits(a, b) ==
    \E i \in 1..Len(a) : a[i] > b[i] /\ \A j \in 1..(i - 1) : a[j] = b[j]
\* the literal run denotes a value no i32 holds
OutOfRange(run) ==
    LET ds == AfterSign(run)
        sig == Drop(ds, RunLength(ds, {ZERO}))
        lim == IF run[1] = MINUS THEN LimitNeg ELSE LimitPos
    IN  \/ Len(sig) > Len(lim)
        \/ Len(sig) = Len(lim) /\ GreaterDigits(sig, lim)

\* C10: when the run integer() consumed denotes a value outside i32, the
\* call does not return None and does not return Some of any value: it
\* ends with an error.
C10_OverflowIsAnError ==
    [][(/\ op' = "integer" /\ StartsWithInteger(Unconsumed)
        /\ OutOfRange(IntRun(Unconsumed))) =>
           ret'.tag \notin {"None", "Some"}]_vars

\* the spaces the unconsumed stream starts with, and what follows them
LeadingSpaces == Take(Unconsumed, RunLength(Unconsumed, {SP}))
AfterSpaces == Drop(Unconsumed, RunLength(Unconsumed, {SP}))

\* C11: next_integer() consumes every ' ' the unconsumed stream starts with
\* and no '\n', and then does what integer() does on what follows: None and
\* nothing more consumed when that is not a digit or '-', the optional '-'
\* and the maximal digit run consumed and its value returned when it is an
\* integer, the result of integer() on the cursor behind the spaces in every
\* case; on " 1  -8" the calls return 1, then -8, then None.
C11_NextIntegerSkipsSpaces ==
    [][op' = "next_integer" =>
         LET a == AfterSpaces
             i == integer(skip_if_eq(Cur, SP).p, ret')
         IN  /\ ret' = i.r /\ consumed' = i.p.consumed
             /\ (a = <<>> \/ a[1] \notin DigitsOrMinus) =>
                    ret' = None /\ consumed' = consumed \o LeadingSpaces
             /\ StartsWithInteger(a) =>
                    /\ consumed' = consumed \o LeadingSpaces \o IntRun(a)
                    /\ ret' # None
                    /\ ~OutOfRange(IntRun(a)) =>
                           is_some(ret') /\ Denotes(IntRun(a), ret'.v[1])
             /\ (a # <<>> /\ a[1] = NL) => ret' = None
             /\ input = <<SP, ONE, SP, SP, MINUS, 56>> =>
                    ret' = IF consumed = <<>> THEN Some(1)
                           ELSE IF consumed = <<SP, ONE>> THEN Some(-8)
                           ELSE IF consumed = input THEN None ELSE ret']_vars

\* next_integer() has returned -8 after skipping the two spaces behind " 1"
C11_Witness ==
    /\ op = "next_integer" /\ ret = Some(-8)
    /\ input = <<SP, ONE, SP, SP, MINUS, 56>> /\ consumed = input

\* C12: take_newline() returns Some(()) exactly when the first character
\* behind the leading spaces is '\n', and has then consumed the spaces and
\* that one '\n'; otherwise it returns None, has consumed the spaces only
\* and the first character that is not a space is still the upcoming one.
C12_TakeNewline ==
    [][op' = "take_newline" =>
         LET a == AfterSpaces
         IN  /\ is_some(ret') <=> (a # <<>> /\ a[1] = NL)
             /\ ret' \in {None, Some(0)}
             /\ is_some(ret') =>
                    consumed' = consumed \o LeadingSpaces \o <<NL>>
             /\ ret' = None =>
                    /\ consumed' = consumed \o LeadingSpaces
                    /\ next(Cur').r = IF a = <<>> THEN None ELSE Some(a[1])]_vars

\* take_newline() has taken "  \n" and left the '1' of "  \n1"
C12_Witness ==
    /\ op = "take_newline" /\ is_some(ret)
    /\ input = <<SP, SP, NL, ONE>> /\ consumed = <<SP, SP, NL>>

\* C13: eof() returns Some(()) exactly when every unconsumed character is
\* a space (none left included); when a character that is not a space is
\* left it returns None, has consumed the spaces in front of it only, and
\* that character is the next one the cursor yields.
C13_Eof ==
    [][op' = "eof" =>
         LET a == AfterSpaces
         IN  /\ is_some(ret') <=> (a = <<>>)
             /\ ret' \in {None, Some(0)}
             /\ consumed' = consumed \o LeadingSpaces
             /\ a # <<>> => next(Cur').r = Some(a[1])]_vars

\* eof() has returned None in front of a character behind a space
C13_Witness ==
    /\ op = "eof" /\ ret = None
    /\ consumed # <<>> /\ consumed[Len(consumed)] = SP
    /\ is_some(Upcoming)

\* the characters of a literal given by its bytes (UTF-8, below U+0800)
RECURSIVE chars_of(_)
chars_of(bs) ==
    IF bs = <<>> THEN <<>>
    ELSE IF bs[1] < 128 THEN <<bs[1]>> \o chars_of(Tail(bs))
    ELSE <<(bs[1] - 192) * 64 + (bs[2] - 128)>> \o chars_of(Tail(Tail(bs)))
\* sequence a is a prefix of sequence b
IsPrefix(a, b) == Len(a) <= Len(b) /\ SubSeq(b, 1, Len(a)) = a
\* the places in the list v of the literals the unconsumed stream starts with
Matching(v) == {i \in 1..Len(v) : IsPrefix(chars_of(v[i]), Unconsumed)}
\* the first of them
FirstMatching(v) == CHOOSE i \in Matching(v) : \A j \in Matching(v) : i <= j

\* C14: take_matching(v) returns the first literal of v, in list order,
\* whose characters are the next characters of the unconsumed stream, and
\* consumes exactly the characters of that literal, the earlier literal
\* winning over a longer one behind it; with no such literal it is None.
C14_FirstCandidateWins ==
    [][op' = "take_matching" =>
         LET v == arg'[1]
         IN  IF Matching(v) = {} THEN ret' = None
             ELSE /\ ret' = [tag |-> "Some", v |-> v[FirstMatching(v)]]
                  /\ consumed' =
                         consumed \o chars_of(v[FirstMatching(v)])]_vars

\* C15: when no literal of the list matches, take_matching returns None and
\* consumes nothing, and the calls of next() that follow return the
\* characters they would have returned without the call, up to the None at
\* the end; what the call pre-fetched stays in the lookahead buffer.
C15_NoMatchConsumesNothing ==
    [][(op' = "take_matching" /\ Matching(arg'[1]) = {}) =>
           /\ ret' = None
           /\ consumed' = consumed
           /\ Reverse(peeked') \o Decoded(source') = Unconsumed
           /\ next_times(Cur', Len(Unconsumed) + 1) =
                  next_times(Cur, Len(Unconsumed) + 1)]_vars

\* take_matching has returned None after pre-fetching a character that
\* matched the start of a literal
C15_Witness ==
    /\ op = "take_matching" /\ ret = None /\ polls >= 2
    /\ Len(peeked) >= 2 /\ Matching(arg[1]) = {}

\* the place of the literal s in the list v
PlaceOf(s, v) == CHOOSE i \in 1..Len(v) : v[i] = s

\* C16: take_matching_and on the pairs (literal, value) returns None exactly
\* when take_matching on the literals does, returns the value paired with
\* the literal take_matching returns, and leaves the cursor as take_matching
\* leaves it.
C16_MatchingAndAgrees ==
    [][op' = "take_matching_and" =>
         LET m == take_matching(Cur, arg'[1])
         IN  /\ (ret' = None) <=> (m.r = None)
             /\ is_some(m.r) =>
                    ret' = Some(WithValues(arg'[1])[PlaceOf(m.r.v, arg'[1])][2])
             /\ source' = m.p.source
             /\ peeked' = m.p.peeked
             /\ peeked_container' = m.p.peeked_container
             /\ consumed' = m.p.consumed]_vars

\* take_matching_and has returned the value of the second literal of a list
C16_Witness ==
    /\ op = "take_matching_and" /\ ret = Some(2) /\ consumed # <<>>

\* the characters read from the source before its first failing item, or
\* from all of it when no item fails
BeforeFailure ==
    LET E == {i \in 1..Len(source) : source[i] = ERR}
    IN  IF E = {} THEN Decoded(source)
        ELSE Decoded(SubSeq(source, 1, (CHOOSE i \in E : \A j \in E : i <= j) - 1))
\* a failing read is among the next k items of the source
FailsWithin(k) == \E i \in 1..Min(k, Len(source)) : source[i] = ERR
\* the source as it is after the failing item was read and nothing behind it
AfterFailure == Drop(source, Len(BeforeFailure) + 1)
\* the call of a primitive made in this step reads the failing item
ObservesFailure ==
    \/ op' \in {"peek", "next", "next_if"} /\ peeked = <<>> /\ FailsWithin(1)
    \/ /\ op' = "peek_n" /\ arg'[1] > Len(peeked)
       /\ FailsWithin(arg'[1] - Len(peeked))

\* C17: the primitive that reads the failing item returns the failure to
\* its caller as an error value (the cursor stays usable), the failing item
\* having been read once and nothing behind it.
C17_FailureIsReturned ==
    [][ObservesFailure =>
           /\ ret'.tag = "Err" /\ ~panicked'
           /\ source' = AfterFailure]_vars

\* What the code does where C17 asks for an error value: the primitive
\* that reads the failing item does not return, take_next panics with the
\* error.  The failing item is read once and not read again, nothing behind
\* it is read, no character is consumed by the call, and no operation runs
\* on the cursor afterwards.
FailurePanics ==
    [][/\ ObservesFailure =>
              /\ ret' = Panic /\ panicked'
              /\ source' = AfterFailure
              /\ polls' = Len(BeforeFailure) + 1
              /\ consumed' = consumed
       /\ panicked => UNCHANGED vars]_vars

\* a next_if has panicked on the failing item after a character was consumed
FailurePanicsReached ==
    /\ op = "next_if" /\ panicked /\ ret = Panic
    /\ consumed # <<>> /\ source # <<>>

\* the characters in front of the failing item that are not consumed yet
Pending == Reverse(peeked) \o BeforeFailure
\* probing the literal c reaches the failing item: every character in
\* front of it matches c and c is longer
Reaches(c) == Len(c) > Len(Pending) /\ Take(c, Len(Pending)) = Pending
\* take_matching on the list v reads the failing item: a literal reaches
\* it and none in front of that literal reaches it or matches
ProbesFailure(v) ==
    /\ FailsWithin(Len(source))
    /\ \E i \in 1..Len(v) :
           /\ Reaches(v[i])
           /\ \A j \in 1..(i - 1) : ~Reaches(v[j]) /\ ~IsPrefix(v[j], Pending)

\* C18: when probing a literal reads the failing item, the take_matching
\* call returns that error to its caller; no later literal is probed and the
\* call consumes nothing.
C18_MatchingReturnsFailure ==
    [][(op' = "take_matching" /\ ProbesFailure(arg'[1])) =>
           /\ ret'.tag = "Err" /\ ~panicked'
           /\ consumed' = consumed
           /\ source' = AfterFailure]_vars

\* What the code does where C18 asks for an error value: the whole
\* take_matching call ends with the panic take_next raises for that error;
\* no later literal is probed (nothing more is read, matched or skipped) and
\* the call consumes nothing.
MatchingPanics ==
    [][(op' = "take_matching" /\ ProbesFailure(arg'[1])) =>
           /\ ret' = Panic /\ panicked'
           /\ consumed' = consumed
           /\ source' = AfterFailure
           /\ polls' = Len(BeforeFailure) + 1
           /\ Reverse(peeked') = Pending]_vars

\* take_matching has panicked on the failing item behind a character that
\* matched, with a second literal left in the list
MatchingPanicsReached ==
    /\ op = "take_matching" /\ panicked /\ ret = Panic
    /\ Len(arg[1]) = 2 /\ peeked # <<>>

\* the place of the first failing item of the input
FailurePlace ==
    CHOOSE i \in 1..Len(input) :
        input[i] = ERR /\ \A j \in 1..(i - 1) : input[j] # ERR

\* C19: after a peek_n or a peek has failed on a read, the characters read
\* before the failing item are all there, once each and in source order:
\* the consumed ones followed by the lookahead buffer, from its back to its
\* front, are the input in front of the failing item.
C19_BufferSurvivesFailure ==
    (panicked /\ op \in {"peek_n", "peek"}) =>
        /\ consumed \o Reverse(peeked) =
               Decoded(SubSeq(input, 1, FailurePlace - 1))
        /\ source = Drop(input, FailurePlace)

\* a peek_n has failed on its third new byte with two characters buffered
C19_Witness ==
    /\ op = "peek_n" /\ panicked /\ polls = 3
    /\ Len(peeked) = 2 /\ consumed = <<>>

\* C20: once the source is drained and the lookahead buffer is empty they
\* stay so under every operation, and from then on next() and peek()
\* return None, peek_n(n) returns the empty string and eof() returns
\* Some(()).
C20_ExhaustedForGood ==
    [][(source = <<>> /\ peeked = <<>>) =>
           /\ source' = <<>> /\ peeked' = <<>>
           /\ consumed' = consumed
           /\ op' \in {"next", "peek"} => ret' = None
           /\ op' = "peek_n" => ret' = Str(<<>>)
           /\ op' = "eof" => ret' = Some(0)]_vars

\* a peek_n(n), n >= 1, has returned the empty string on a cursor that
\* handed out its whole input, part of it through an earlier peek_n
C20_Witness ==
    /\ op = "peek_n" /\ arg[1] >= 1 /\ ret = Str(<<>>)
    /\ input # <<>> /\ consumed = Decoded(input)
    /\ source = <<>> /\ peeked = <<>>

\* the largest of two numbers
Max(a, b) == IF a >= b THEN a ELSE b
\* the length of the longest literal of a list, in bytes (str::len)
LongestLiteral(v) ==
    IF v = <<>> THEN 0
    ELSE CHOOSE n \in {Len(v[i]) : i \in 1..Len(v)} :
             \A i \in 1..Len(v) : Len(v[i]) <= n
\* the lookahead an operation asks for: the distance of a peek_n, the
\* length of the longest literal of a matcher, one character otherwise
Requested(o, a) ==
    IF o = "peek_n" THEN a[1]
    ELSE IF o \in {"take_matching", "take_matching_and"}
    THEN LongestLiteral(a[1])
    ELSE 1

\* C21: no operation leaves the lookahead buffer longer than the larger of
\* what it found buffered and max(1, the lookahead it asked for), so that
\* the buffer, empty at construction, never holds more than max(1, N)
\* characters, N the largest lookahead asked for so far; the buffer changes
\* by the characters read from the source less the characters consumed,
\* and next() and skip(n) take min(n, buffered) characters out of it.
C21_BufferBounded ==
    [][/\ Len(peeked') <=
              Max(Len(peeked), Max(1, Requested(op', arg')))
       /\ Len(peeked') = Len(peeked) + (Len(source) - Len(source'))
                             - (Len(consumed') - Len(consumed))
       /\ op' = "next" => Len(peeked') = Len(peeked) - Min(1, Len(peeked))
       /\ op' = "skip" =>
              Len(peeked') = Len(peeked) - Min(arg'[1], Len(peeked))]_vars

\* a next() has taken one character out of a buffer that a peek_n(3) had
\* filled with three
C21_Witness ==
    /\ op = "next" /\ Len(peeked) = 2 /\ Len(consumed) = 1
    /\ source # <<>>

\* the number a run of decimal digits denotes
RECURSIVE DecimalValue(_)
DecimalValue(ds) ==
    IF ds = <<>> THEN 0
    ELSE DecimalValue(SubSeq(ds, 1, Len(ds) - 1)) * 10 + (ds[Len(ds)] - ZERO)
\* the number an integer literal (an optional '-', then digits) denotes
LiteralValue(run) ==
    IF run[1] = MINUS THEN -DecimalValue(Tail(run)) ELSE DecimalValue(run)
\* the products of the well-formed instruction that starts at place i of s:
\* "mul(", an integer, ',', an integer and ')' with nothing in between
MulAt(s, i) ==
    LET t1 == Drop(s, i + 3)
        a == IntRun(t1)
        t2 == Drop(t1, Len(a))
        b == IntRun(Tail(t2))
        t3 == Drop(t2, 1 + Len(b))
    IN  IF /\ IsPrefix(LIT_mul, Drop(s, i - 1))
           /\ StartsWithInteger(t1)
           /\ t2 # <<>> /\ t2[1] = COMMA
           /\ StartsWithInteger(Tail(t2))
           /\ t3 # <<>> /\ t3[1] = RPAREN
        THEN {LiteralValue(a) * LiteralValue(b)}
        ELSE {}
\* the sum of the products of the well-formed instructions of s that start
\* at a place of the set I
RECURSIVE SumOfMuls(_, _)
SumOfMuls(s, I) ==
    IF I = {} THEN 0
    ELSE LET i == CHOOSE j \in I : TRUE
             m == MulAt(s, i)
         IN  (IF m = {} THEN 0 ELSE CHOOSE x \in m : TRUE)
             + SumOfMuls(s, I \ {i})

\* C22: part_1 of day_03 returns the sum of a * b over every occurrence of
\* a well-formed mul(a,b) in the input, whatever text comes before the
\* occurrence.
C22_Part1SumsEveryMul ==
    (op = "day_03::part_1" /\ ret.tag = "Ok") =>
        ret.v[1] = SumOfMuls(input, 1..Len(input))

\* the instruction do() or don't() starts at place j of s
SwitchAt(s, j) ==
    IsPrefix(LIT_do, Drop(s, j - 1)) \/ IsPrefix(LIT_dont, Drop(s, j - 1))
\* multiplication is enabled at place i of s: the last do() or don't()
\* that starts before i, if there is one, is a do()
EnabledAt(s, i) ==
    LET D == {j \in 1..(i - 1) : SwitchAt(s, j)}
    IN  \/ D = {}
        \/ IsPrefix(LIT_do,
                    Drop(s, (CHOOSE j \in D : \A k \in D : k <= j) - 1))

\* C23: part_2 of day_03 returns the sum of a * b over the well-formed
\* mul(a,b) that start where multiplication is enabled: at the start of
\* the input it is, every don't() disables it and every do() enables it.
C23_Part2FollowsSwitches ==
    (op = "day_03::part_2" /\ ret.tag = "Ok") =>
        ret.v[1] = SumOfMuls(input, {i \in 1..Len(input) : EnabledAt(input, i)})

\* what the two tests of day_03.rs assert: 161 and 48
Day03TestsPass ==
    /\ (op = "day_03::part_1" /\ ret.tag = "Ok" /\ Len(input) = 76) =>
           ret.v[1] = 161 /\ SumOfMuls(input, 1..Len(input)) = 161
    /\ (op = "day_03::part_2" /\ ret.tag = "Ok" /\ Len(input) = 73) =>
           /\ ret.v[1] = 48
           /\ SumOfMuls(input, {i \in 1..Len(input) : EnabledAt(input, i)}) = 48

\* the places of the newlines of the map text s
Newlines(s) == {k \in 1..Len(s) : s[k] = NL}
\* the length of a row of the map and the number of its rows
RowLength(s) ==
    IF Newlines(s) = {} THEN Len(s)
    ELSE (CHOOSE k \in Newlines(s) : \A j \in Newlines(s) : k <= j) - 1
RowCount(s) ==
    Cardinality(Newlines(s)) + (IF s[Len(s)] = NL THEN 0 ELSE 1)
\* the cells inside the map and the character of the map in a cell
Inside(s) == (0..(RowLength(s) - 1)) \X (0..(RowCount(s) - 1))
CharAt(s, c) == s[c[2] * (RowLength(s) + 1) + c[1] + 1]
\* the cells the guard occupies from the cell c, facing d, until it steps
\* off the map (or for n more moves and turns), turning clockwise at each
\* block; V are the cells it occupied before
RECURSIVE Patrol(_, _, _, _, _)
Patrol(s, c, d, V, n) ==
    LET ahead == <<c[1] + d[1], c[2] + d[2]>>
    IN  IF n = 0 \/ ahead \notin Inside(s) THEN V \cup {c}
        ELSE CHOOSE r \in
                 {Patrol(s, q[1], q[2], q[3], n - 1) :
                      q \in {IF CharAt(s, ahead) = BLOCK
                             THEN <<c, <<-d[2], d[1]>>, V \cup {c}>>
                             ELSE <<ahead, d, V \cup {c}>>}} : TRUE
\* the cells inside the map the guard of the map text s occupies
GuardCells(s) ==
    Patrol(s, CHOOSE c \in Inside(s) : CharAt(s, c) = GUARD, <<0, -1>>, {},
           4 * Cardinality(Inside(s)))

\* C24: part_1 of day_06 returns the number of distinct cells inside the
\* map that the guard occupies from its start until it steps off the map.
C24_Part1CountsCellsInside ==
    (op = "day_06::part_1") => ret = Ok(Cardinality(GuardCells(input)))

\* C27: between two resets Steps yields no more items than the upper bound
\* its size_hint states, width * height.
C27_YieldsWithinSizeHint ==
    op \in {"collect", "any", "day_06::part_1"} => yields <= size_hint(steps)

\* what the three tests of day_06.rs assert: 41 and 6 on the map of ten
\* rows, 1 on the map of four
Day06TestsPass ==
    /\ (op = "day_06::part_1" /\ Len(input) = 109) =>
           ret = Ok(41) /\ Cardinality(GuardCells(input)) = 41
    /\ (op = "day_06::part_2" /\ Len(input) = 109) => ret = Ok(6)
    /\ (op = "day_06::part_2" /\ Len(input) = 19) => ret = Ok(1)

\* the text s starts with a line of the shape of day_01: an integer, one or
\* more spaces, an integer, then a newline or the end of the input
PairLeft(s) == IntRun(s)
PairGap(s) == RunLength(Drop(s, Len(PairLeft(s))), {SP})
PairRight(s) == IntRun(Drop(s, Len(PairLeft(s)) + PairGap(s)))
PairRest(s) == Drop(s, Len(PairLeft(s)) + PairGap(s) + Len(PairRight(s)))
PairLine(s) ==
    /\ StartsWithInteger(s)
    /\ PairGap(s) >= 1
    /\ StartsWithInteger(Drop(s, Len(PairLeft(s)) + PairGap(s)))
    /\ PairRest(s) = <<>> \/ PairRest(s)[1] = NL

\* C25: called at the start of a line of the shape of day_01, Pairs::next
\* yields Ok((left, right)) with the two integers of the line and consumes
\* the line with its newline; it yields an error only at the start of a
\* line that does not have the shape.
C25_PairsYieldsEveryLine ==
    [][op' = "Pairs::next" =>
         /\ PairLine(Unconsumed) =>
                /\ ret' = Some(Ok(<<LiteralValue(PairLeft(Unconsumed)),
                                    LiteralValue(PairRight(Unconsumed))>>))
                /\ Len(consumed') = Len(input) - Len(PairRest(Unconsumed))
                       + (IF PairRest(Unconsumed) = <<>> THEN 0 ELSE 1)
         /\ (is_some(ret') /\ ret'.v[1].tag = "Err") =>
                ~PairLine(Unconsumed)]_vars

\* the string s that integer() hands to s.parse(): the characters the call
\* consumed, the first with next_if and the others in its while-let loop,
\* as what was consumed after the call less what was consumed before it
Handed(before, after) == SubSeq(after, Len(before) + 1, Len(after))
\* an optional '-', then at least one ASCII digit and nothing else, with a
\* value an i32 can hold
ValidLiteral(s) ==
    /\ StartsWithInteger(s)
    /\ IntRun(s) = s
    /\ LiteralValue(s) >= I32Min
    /\ LiteralValue(s) <= I32Max

\* C26: every call of integer() that consumes something (so reaches
\* s.parse()) hands the parse a valid integer literal, also when the
\* first character is a '-' followed by a non-digit or by the end of input.
C26_ParseNeverFails ==
    [][(op' = "integer" /\ Len(consumed') > Len(consumed)) =>
           ValidLiteral(Handed(consumed, consumed'))]_vars

\* C28: every round of the loop of Stones::from consumes at least one
\* character, whatever the next character is, so that the loop ends on
\* every finite input.
C28_EveryRoundConsumes ==
    [][op' = "Stones::from loop" => Len(consumed') > Len(consumed)]_vars

\* the reads grid_get and grid_iter of grid.rs assert on their input
GridTestsPass ==
    (input \in GridTests /\ op # "start") =>
        /\ Grid2D_get(grid, <<0, 0>>) = Some(97)
        /\ Grid2D_get(grid, <<3, 1>>) = Some(104)
        /\ Grid2D_get(grid, <<1, 2>>) = Some(106)
        /\ Grid2D_get(grid, <<1, 4>>) = None
        /\ Grid2D_get(grid, <<4, 1>>) = None
        /\ \A ub \in UBReads : iter_item(grid, 4, ub) = Some(<<(<<0, 1>>), 101>>)

\* C29: every grid Grid2D::from built has data.len() == width * height, so
\* that every position inside width and height, the ones iter() produces
\* and the ones the test of get() lets through, indexes inside data.
C29_DataFillsTheGrid ==
    op \in {"Grid2D::from", "Grid2D::get", "Grid2D::iter"} =>
        /\ Len(grid.data) = grid.width * grid.height
        /\ \A p \in GridPositions :
               (p[1] < grid.width /\ p[2] < grid.height) =>
                   idx(grid, p) < Len(grid.data)

\* the bytes of the input behind the consumed characters, one byte for
\* each character consumed
UnconsumedBytes == Drop(input, Len(consumed))
\* the places in the list v of the literals whose bytes are the next bytes
\* of the source
MatchingBytes(v) == {i \in 1..Len(v) : IsPrefix(v[i], UnconsumedBytes)}
\* the first of them
FirstMatchingBytes(v) ==
    CHOOSE i \in MatchingBytes(v) : \A j \in MatchingBytes(v) : i <= j

\* C30: take_matching(v) reports a literal exactly when the bytes of the
\* literal are the next bytes of the source, bytes of 0x80 and above
\* included: it returns the first such literal and consumes as many
\* characters as source bytes were matched, and with no such literal it
\* returns None and consumes nothing.
C30_MatchesOnBytes ==
    [][op' = "take_matching" =>
         IF MatchingBytes(arg'[1]) = {}
         THEN ret' = None /\ consumed' = consumed
         ELSE /\ ret'.tag = "Some"
              /\ ret'.v = arg'[1][FirstMatchingBytes(arg'[1])]
              /\ Len(consumed') =
                     Len(consumed) + Len(arg'[1][FirstMatchingBytes(arg'[1])])
              /\ IsPrefix(arg'[1][FirstMatchingBytes(arg'[1])],
                          Handed(consumed, consumed'))]_vars
====
